---- MODULE Spec2Model ----
(***************************************************************************)
(* Model of internal/crawl/crawl.go: the funding-manifest crawler.         *)
(*                                                                         *)
(*   FetchManifest -> fetch -> ParseManifest -> Validate -> CheckProvenance *)
(*                                                                         *)
(* Strings and bodies are sequences of bytes (small integers).  The calls  *)
(* are synchronous; an action is the code between two points where the     *)
(* program waits for something outside of it (the HTTP client, the JSON    *)
(* decoder, the schema validator).  What the outside answers is chosen     *)
(* nondeterministically from bounded sets.                                 *)
(***************************************************************************)
EXTENDS Integers, Sequences, FiniteSets, TLC

\* ------------------------------------------------------------------ bounds
\* Callers using the instance at the same time.
NumPipelines == 2
\* Largest opt.Attempts drawn (the smallest is -1).
MaxAttempts == 2
\* Retriable failures the network injects during one behaviour: of Spec, and
\* of SpecProvenance.
MaxFaults == 1
MaxFaultsProvenance == 2
\* Projects in a decoded / validated manifest.
MaxProjects == 2
\* Length of the short disclosure lists the server may send.
MaxListLen == 2
\* Length of a manifest URL handed to CheckProvenance.
MaxUrlLen == 1
\* Long disclosure lists have LineCap - Slack .. LineCap + Slack + 1 filler lines.
Slack == 1

\* ------------------------------------------------------- program constants
\* crawl.go:115  []byte("\n")
NL == 10
\* crawl.go:120  if n > 100
LineCap == 100
\* crawl.go:203  http.StatusOK
StatusOK == 200

\* --------------------------------------------------------------- the data
Bytes == {NL, 32, 97}
UrlBytes == {32, 97}
StatusCodes == {StatusOK, 404}

SeqsUpTo(S, k) == UNION {[1..j -> S] : j \in 0..k}

Max(a, b) == IF a > b THEN a ELSE b
Min(a, b) == IF a < b THEN a ELSE b

\* The disclosure-list URL of the i-th URL ref of a manifest, when it has one
\* ("w0", "w1", ...), and the one the caller of CheckProvenance hands in ("w").
WK(i) == <<119, 48 + i>>
CallerWK == <<119>>
IsWellKnown(u) == Len(u) >= 1 /\ u[1] = 119

\* The manifest URLs handed to FetchManifest and ParseManifest ("a", "a ").
ManifestURLs == {<<97>>, <<97, 32>>}
\* The manifest URLs handed to CheckProvenance.
CallerURLs == SeqsUpTo(UrlBytes, MaxUrlLen)

\* k lines " \n".
Fill(k) == [i \in 1..(2 * k) |-> IF i % 2 = 1 THEN 32 ELSE NL]

ShortLists == SeqsUpTo(Bytes, MaxListLen)
LongLists ==
    {Fill(k) \o t : k \in (LineCap - Slack)..(LineCap + Slack + 1),
                    t \in SeqsUpTo(UrlBytes, 1)}
\* The lists at the disclosure-list URLs of a manifest: "", "a", and a long
\* one.
ManifestLists == {<<>>, <<97>>, Fill(LineCap + 2)}
\* The manifest document ("{}"); a call that made no request has no body.
Docs == {<<123, 125>>}

\* What the server may have at a URL: a manifest document, or a disclosure
\* list at a disclosure-list URL.
Served(u) ==
    IF ~IsWellKnown(u) THEN Docs
    ELSE IF u = CallerWK THEN ShortLists \cup LongLists
    ELSE ManifestLists

\* v1.URL: only the WellKnown pointer matters here.
Ref(w) == [WellKnown |-> w]
RefChoice(pos, on) == Ref(IF on THEN WK(pos) ELSE <<>>)

Shapes ==
    UNION {
      { [Entity |-> [WebpageURL |-> RefChoice(0, e)],
         Projects |-> [j \in 1..p |->
                        [WebpageURL |-> RefChoice(2 * j - 1, f[2 * j - 1]),
                         RepositoryUrl |-> RefChoice(2 * j, f[2 * j])]]]
        : e \in BOOLEAN, f \in [1..(2 * p) -> BOOLEAN] }
      : p \in 0..MaxProjects }

Manifest(u, b, s) ==
    [URL |-> u, Body |-> b, Entity |-> s.Entity, Projects |-> s.Projects]

\* v1.Manifest{}
ZeroManifest ==
    [URL |-> <<>>, Body |-> <<>>,
     Entity |-> [WebpageURL |-> Ref(<<>>)], Projects |-> <<>>]

\* Errors. Nil is the nil error.
Error(kind, url, code) == [kind |-> kind, url |-> url, code |-> code]
Nil == Error("nil", <<>>, 0)
OK == Error("OK", <<>>, 0)

\* More bytes than any body the server sends.
Ample == 2 * (LineCap + Slack + 1) + MaxListLen + 1

\* The opts the instance may be constructed with.
Opts ==
    [Attempts : (-1)..MaxAttempts,
     MaxBytes : {0, 1, Ample},
     UserAgent : {"portal"}]

VARIABLES
    opt,          \* c.opt
    headers,      \* c.headers
    log,          \* what c.lo has printed
    reqs,         \* the requests c.hc.Do has been given
    held,         \* responses whose body is not closed yet
    entry,        \* the exported method the caller invoked
    stage,        \* where the call is
    manifestURL,  \* ParseManifest / CheckProvenance: manifestURL
    checkProv,    \* ParseManifest: checkProvenance
    pmBody,       \* ParseManifest: b
    m,            \* ParseManifest: m
    idx,          \* ParseManifest: position in the URL refs of m
    fUrl,         \* fetch: u
    n,            \* fetch: n
    body,         \* fetch: body
    retry,        \* fetch: retry
    err,          \* fetch: err
    fpc,          \* fetch: where it is
    status,       \* doReq: r.StatusCode of the response being handled
    tries,        \* history: doReq calls of the current fetch
    outs,         \* history: outcome of each doReq call of the current fetch
    sent,         \* history: the bytes the server sent with the last readable 200
    faults,       \* the retriable failures the network may still inject
    decodes,      \* history: UnmarshalJSON calls
    validates,    \* history: Validate calls
    validated,    \* history: what the latest Validate call returned
    checks,       \* history: CheckProvenance calls and their results
    lastScan,     \* history: the scan of the latest CheckProvenance call
    failedAt,     \* history: the stage that failed
    result,       \* what the exported method returned
    pipes         \* callers at once: the one running, the locals of the others

vars == <<opt, headers, log, reqs, held, entry, stage, manifestURL, checkProv,
          pmBody, m, idx, fUrl, n, body, retry, err, fpc, status, tries, outs,
          sent, faults, decodes, validates, validated, checks, lastScan,
          failedAt, result, pipes>>

fetchVars == <<fUrl, n, body, retry, err, fpc, status, tries, outs, sent>>
callVars == <<entry, manifestURL, checkProv, pmBody, m, idx>>
histVars == <<decodes, validates, validated, checks, lastScan, failedAt>>
ioVars == <<log, reqs, held, faults>>

\* The validator not called (yet).
NoValidation == [m |-> ZeroManifest, err |-> Nil]

\* No list scanned (yet).
NoScan == [res |-> "none", compared |-> 0]

\* The callers of the instance.
Pipelines == 1..NumPipelines

\* The arguments, locals and results of a caller that has not called (yet).
IdleLocals ==
    [entry |-> "none", stage |-> "idle", manifestURL |-> <<>>,
     checkProv |-> FALSE, pmBody |-> <<>>, m |-> ZeroManifest, idx |-> 0,
     fUrl |-> <<>>, n |-> 0, body |-> <<>>, retry |-> FALSE, err |-> Nil,
     fpc |-> "idle", status |-> 0, tries |-> 0, outs |-> <<>>, sent |-> <<>>,
     decodes |-> 0, validates |-> 0, validated |-> NoValidation,
     checks |-> <<>>, lastScan |-> NoScan, failedAt |-> "none",
     result |-> [m |-> ZeroManifest, err |-> Nil]]

\* ------------------------------------------------------------------- New
New(o) ==
    /\ opt = o
    /\ headers = [UserAgent |-> o.UserAgent, ContentType |-> ""]

Start(os, budget) ==
    /\ \E o \in os : New(o)
    /\ log = <<>>
    /\ reqs = <<>>
    /\ held = 0
    /\ entry = "none"
    /\ stage = "idle"
    /\ manifestURL = <<>>
    /\ checkProv = FALSE
    /\ pmBody = <<>>
    /\ m = ZeroManifest
    /\ idx = 0
    /\ fUrl = <<>>
    /\ n = 0
    /\ body = <<>>
    /\ retry = FALSE
    /\ err = Nil
    /\ fpc = "idle"
    /\ status = 0
    /\ tries = 0
    /\ outs = <<>>
    /\ sent = <<>>
    /\ faults = budget
    /\ decodes = 0
    /\ validates = 0
    /\ validated = NoValidation
    /\ checks = <<>>
    /\ lastScan = NoScan
    /\ failedAt = "none"
    /\ result = [m |-> ZeroManifest, err |-> Nil]
    /\ pipes = [cur |-> 1, saved |-> [p \in Pipelines |-> IdleLocals]]

\* An instance whose MaxBytes no body reaches, with no attempt, one, or
\* several.
Init ==
    Start({o \in Opts : /\ o.MaxBytes = Ample
                        /\ o.Attempts \in {-1, 0, 1, MaxAttempts}}, MaxFaults)

\* An instance with any of the opts.
InitAnyOpt == Start(Opts, MaxFaultsProvenance)

\* ----------------------------------------------------------------- doReq
\* LimitRead with the limit one byte too far.
LimitReadOneMore(b, max) == SubSeq(b, 1, Min(Len(b), Max(max, 0) + 1))

\* io.ReadAll(io.LimitReader(r.Body, c.opt.MaxBytes)): a LimitReader with
\* N <= 0 is at EOF at once.
LimitRead(b, max) == SubSeq(b, 1, Min(Len(b), Max(max, 0)))

\* return nil, true, err: http.NewRequest or c.hc.Do failed.
doReqFailed(kind, u) ==
    [respBody |-> <<>>, retry |-> TRUE, retErr |-> Error(kind, u, 0)]

\* doReqResponse with a status other than 200 taken as retriable.
doReqResponseRetryStatus(u, st, readOK, b) ==
    IF st # StatusOK
      THEN [respBody |-> <<>>, retry |-> TRUE, retErr |-> Error("status", u, st)]
      ELSE IF ~readOK
        THEN [respBody |-> <<>>, retry |-> TRUE, retErr |-> Error("read", u, 0)]
        ELSE [respBody |-> SubSeq(b, 1, Min(Len(b), Max(opt.MaxBytes, 0))),
              retry |-> FALSE, retErr |-> Nil]

\* What doReq returns once c.hc.Do has answered with a response of status st
\* whose body, b, can (readOK) or cannot be read to its end.
doReqResponse(u, st, readOK, b) ==
    IF st # StatusOK
      THEN [respBody |-> <<>>, retry |-> FALSE, retErr |-> Error("status", u, st)]
      ELSE IF ~readOK
        THEN [respBody |-> <<>>, retry |-> TRUE, retErr |-> Error("read", u, 0)]
        ELSE [respBody |-> LimitRead(b, opt.MaxBytes), retry |-> FALSE,
              retErr |-> Nil]

\* closeBody that never closes.
closeBodyNever(h, retErr) == h

\* closeBody that leaves the response open when doReq returns an error.
closeBodyOnOK(h, retErr) == IF retErr = Nil THEN h - 1 ELSE h

\* The deferred io.Copy(io.Discard, r.Body); r.Body.Close(): it runs on every
\* return after c.hc.Do answered, whatever doReq returns.
closeBody(h, retErr) == h - 1

\* logLine that prints OK whatever doReq returns.
logLineOK(method, u, retErr) == [verb |-> method, url |-> u, msg |-> OK]

\* The deferred c.lo.Printf("%s %s -> %v", method, rURL, msg).
logLine(method, u, retErr) ==
    [verb |-> method, url |-> u, msg |-> IF retErr = Nil THEN OK ELSE retErr]

\* req.Header = headers, which makes the request's header set and c.headers
\* one and the same map; then a POST or PUT without a content type is given
\* the default one, in that map.
reqHeader(method, h) ==
    IF h.ContentType = "" /\ method \in {"POST", "PUT"}
      THEN [h EXCEPT !.ContentType = "application/json"]
      ELSE h

\* The request handed to c.hc.Do.
request(method, u) ==
    [verb |-> method, url |-> u, header |-> reqHeader(method, headers)]

\* ----------------------------------------------------------------- fetch
\* fetch calling doReq with POST.
fetchMethodPost == "POST"

\* c.doReq(http.MethodGet, u, nil, c.headers)
fetchMethod == "GET"

\* var body, err, retry; n := 0
fetchStart(u) ==
    /\ fUrl' = u
    /\ n' = 0
    /\ body' = <<>>
    /\ retry' = FALSE
    /\ err' = Nil
    /\ fpc' = "loop"
    /\ status' = 0
    /\ tries' = 0
    /\ outs' = <<>>
    /\ sent' = <<>>

\* The locals of a fetch that has returned.
fetchDrop ==
    /\ fUrl' = <<>>
    /\ n' = 0
    /\ body' = <<>>
    /\ retry' = FALSE
    /\ err' = Nil
    /\ fpc' = "idle"
    /\ status' = 0
    /\ tries' = 0
    /\ outs' = <<>>
    /\ sent' = <<>>

\* fetchCond with one attempt too many.
fetchCondInclusive == n <= opt.Attempts

\* n < c.opt.Attempts
fetchCond == n < opt.Attempts

\* fetchBreak with the retry flag read the wrong way round.
fetchBreakOnRetry == err = Nil \/ retry

\* if err == nil || !retry { break }
fetchBreak == err = Nil \/ ~retry

\* The loop is left: by the break, or by its condition.
fetchDone == (fpc = "after" /\ fetchBreak) \/ (fpc = "loop" /\ ~fetchCond)

\* if err != nil { return nil, err }; return body, nil
fetchResult ==
    IF err # Nil THEN [body |-> <<>>, err |-> err]
                 ELSE [body |-> body, err |-> Nil]

\* doReq up to c.hc.Do: the request cannot be built, the transport fails, or a
\* response arrives.
doReqSend ==
    /\ fpc = "loop"
    /\ fetchCond
    /\ tries' = tries + 1
    /\ \/ /\ faults > 0
          /\ \E kind \in {"request", "transport"} :
               LET r == doReqFailed(kind, fUrl) IN
               /\ body' = r.respBody
               /\ retry' = r.retry
               /\ err' = r.retErr
               /\ outs' = Append(outs, kind)
               /\ log' = Append(log, logLine(fetchMethod, fUrl, r.retErr))
               /\ reqs' = IF kind = "transport"
                            THEN Append(reqs, request(fetchMethod, fUrl))
                            ELSE reqs
               /\ headers' = IF kind = "transport"
                               THEN reqHeader(fetchMethod, headers)
                               ELSE headers
          /\ faults' = faults - 1
          /\ fpc' = "after"
          /\ UNCHANGED <<held, status>>
       \/ /\ \E st \in StatusCodes : status' = st
          /\ reqs' = Append(reqs, request(fetchMethod, fUrl))
          /\ headers' = reqHeader(fetchMethod, headers)
          /\ held' = held + 1
          /\ fpc' = "do"
          /\ UNCHANGED <<body, retry, err, outs, log, faults>>
    /\ UNCHANGED <<opt, pipes, fUrl, n, sent, stage>>
    /\ UNCHANGED <<callVars, histVars, result>>

\* doReq from the response on: the status, the read, then the deferred drain
\* and close and the deferred log line. Only a 200 response that was read
\* delivers what the server has at the URL; the body of any other is unread.
doReqRecv ==
    /\ fpc = "do"
    /\ \E readOK \in BOOLEAN, b \in Served(fUrl) \cup {<<>>} :
         LET r == doReqResponse(fUrl, status, readOK, b) IN
         /\ (status = StatusOK /\ readOK) => b \in Served(fUrl)
         /\ status = StatusOK \/ (readOK /\ b = <<>>)
         /\ readOK \/ (b = <<>> /\ faults > 0)
         /\ body' = r.respBody
         /\ retry' = r.retry
         /\ err' = r.retErr
         /\ outs' = Append(outs, IF r.retErr = Nil THEN "ok" ELSE r.retErr.kind)
         /\ sent' = IF r.retErr = Nil THEN b ELSE sent
         /\ faults' = IF r.retry THEN faults - 1 ELSE faults
         /\ held' = closeBody(held, r.retErr)
         /\ log' = Append(log, logLine(fetchMethod, fUrl, r.retErr))
    /\ status' = 0
    /\ fpc' = "after"
    /\ UNCHANGED <<opt, pipes, headers, reqs, fUrl, n, tries, stage>>
    /\ UNCHANGED <<callVars, histVars, result>>

\* The loop after doReq returned without a break: n++.
fetchLoop ==
    /\ fpc = "after"
    /\ ~fetchBreak
    /\ fpc' = "loop"
    /\ n' = n + 1
    /\ UNCHANGED <<opt, pipes, headers, fUrl, body, retry, err, status, tries, outs,
                   sent, stage, result>>
    /\ UNCHANGED <<callVars, histVars, ioVars>>

\* ------------------------------------------------------- CheckProvenance
\* bytes.Split(body, []byte("\n")): the pieces between the newlines, one more
\* than there are newlines (the empty body gives one empty piece).
Split(b) ==
    LET isSep(i) == b[i] = NL
        pieces(seps) ==
          [j \in 1..(Len(seps) + 1) |->
            SubSeq(b, IF j = 1 THEN 1 ELSE seps[j - 1] + 1,
                      IF j = Len(seps) + 1 THEN Len(b) ELSE seps[j] - 1)]
    IN CHOOSE ps \in {pieces(seps) :
                        seps \in {SelectSeq([i \in 1..Len(b) |-> i], isSep)}} :
         TRUE

\* Equal after trimming one trailing space of the line.
EqualTrimmed(a, b) ==
    \/ a = b
    \/ Len(b) >= 1 /\ b[Len(b)] = 32 /\ a = SubSeq(b, 1, Len(b) - 1)

\* bytes.Equal(ub, b)
Equal(a, b) == a = b

\* if n > 100
overCap(k) == k > LineCap

\* The loop over the lines: it ends at the first index (counted from 0) whose
\* line is ub or which is over the cap, the comparison being made first, or
\* after the last line. The outcome, and how many lines were compared with ub.
scanLines(lines, ub) ==
    LET stops == {k \in 0..(Len(lines) - 1) :
                    Equal(ub, lines[k + 1]) \/ overCap(k)}
    IN IF stops = {} THEN [res |-> "notfound", compared |-> Len(lines)]
       ELSE LET k == CHOOSE x \in stops : \A y \in stops : x <= y
            IN IF Equal(ub, lines[k + 1])
                 THEN [res |-> "found", compared |-> k + 1]
                 ELSE [res |-> "toomany", compared |-> k + 1]

\* The lines are split once, then scanned.
scan(b, murl) ==
    CHOOSE r \in {scanLines(lines, murl) : lines \in {Split(b)}} : TRUE

\* The error CheckProvenance returns after the scan.
scanError(res, murl) ==
    IF res = "found" THEN Nil
    ELSE IF res = "toomany" THEN Error("toomany", <<>>, 0)
    ELSE Error("notfound", murl, 0)

\* exempt without the early return.
exemptNever(u) == FALSE

\* if u.WellKnown == "" { return nil }
exempt(u) == u.WellKnown = <<>>

\* One CheckProvenance call, for the history.
Check(u, murl, res) == [u |-> u, manifestURL |-> murl, res |-> res]

\* --------------------------------------------------------- ParseManifest
\* The URL refs of a manifest in the order ParseManifest checks them:
\* m.Entity.WebpageURL, then each project's WebpageURL and RepositoryUrl.
RECURSIVE projectRefs(_, _)
projectRefs(ps, j) ==
    IF j > Len(ps) THEN <<>>
    ELSE <<ps[j].WebpageURL, ps[j].RepositoryUrl>> \o projectRefs(ps, j + 1)

\* refs without the repository URLs.
refsNoRepository(mf) ==
    <<mf.Entity.WebpageURL>>
      \o [j \in 1..Len(mf.Projects) |-> mf.Projects[j].WebpageURL]

\* refs with each project's repository URL before its webpage URL.
refsRepositoryFirst(mf) ==
    <<mf.Entity.WebpageURL>>
      \o [i \in 1..(2 * Len(mf.Projects)) |->
            IF i % 2 = 1 THEN mf.Projects[(i + 1) \div 2].RepositoryUrl
                         ELSE mf.Projects[i \div 2].WebpageURL]

refs(mf) == <<mf.Entity.WebpageURL>> \o projectRefs(mf.Projects, 1)

\* What m.UnmarshalJSON(b) may leave in m when it succeeds: the URL and the
\* body are not part of the document.
Decoded == {Manifest(<<>>, <<>>, s) : s \in Shapes}

\* stamp that leaves the manifest as decoded.
stampNothing(mf, u, b) == mf

\* stamp without the URL.
stampNoURL(mf, u, b) == [mf EXCEPT !.Body = b]

\* m.URL = manifestURL; m.Body = json.RawMessage(b)
stamp(mf, u, b) == [mf EXCEPT !.URL = u, !.Body = b]

\* c.sc.Validate(mf), the Schema Validator: it accepts mf and answers with the
\* manifest normalised (the URL and the body as they were stamped), or it
\* refuses it with an error and a manifest of its own.
Validate(mf) ==
    {[m |-> Manifest(mf.URL, mf.Body, s), err |-> Nil] : s \in Shapes}
      \cup {[m |-> v, err |-> Error("schema", <<>>, 0)] :
               v \in {Manifest(mf.URL, mf.Body, s) : s \in Shapes}
                       \cup {ZeroManifest}}

\* The exported method returns: its result, and its locals are gone.
return(mf, e, at) ==
    /\ result' = [m |-> mf, err |-> e]
    /\ failedAt' = at
    /\ stage' = "returned"
    /\ pmBody' = <<>>
    /\ m' = ZeroManifest
    /\ idx' = 0

\* ------------------------------------------------------------ the caller
\* c.FetchManifest(u): b, err := c.fetch(manifestURL)
CallFetchManifest ==
    /\ stage = "idle"
    /\ \E u \in ManifestURLs :
         /\ manifestURL' = u
         /\ fetchStart(u)
    /\ entry' = "FetchManifest"
    /\ stage' = "FetchManifest.fetch"
    /\ UNCHANGED <<opt, pipes, headers, checkProv, pmBody, m, idx, result>>
    /\ UNCHANGED <<histVars, ioVars>>

\* FetchManifest after fetch returned: the error, or on to ParseManifest(b,
\* manifestURL, true).
FetchManifestFetched ==
    /\ stage = "FetchManifest.fetch"
    /\ fetchDone
    /\ IF fetchResult.err # Nil
         THEN /\ return(ZeroManifest, fetchResult.err, "fetch")
              /\ UNCHANGED checkProv
         ELSE /\ pmBody' = fetchResult.body
              /\ checkProv' = TRUE
              /\ stage' = "ParseManifest.decode"
              /\ UNCHANGED <<m, idx, result, failedAt>>
    /\ fetchDrop
    /\ UNCHANGED <<opt, pipes, headers, entry, manifestURL>>
    /\ UNCHANGED <<decodes, validates, validated, checks, lastScan, ioVars>>

\* c.ParseManifest(b, u, cp), called with a body the caller has.
CallParseManifest ==
    /\ stage = "idle"
    /\ \E u \in ManifestURLs, b \in Docs, cp \in BOOLEAN :
         /\ manifestURL' = u
         /\ pmBody' = b
         /\ checkProv' = cp
    /\ entry' = "ParseManifest"
    /\ stage' = "ParseManifest.decode"
    /\ UNCHANGED <<opt, pipes, headers, m, idx, result>>
    /\ UNCHANGED <<fetchVars, histVars, ioVars>>

\* m.UnmarshalJSON(b): an error, or the decoded manifest, which is then
\* stamped with the URL and the body.
ParseManifestDecode ==
    /\ stage = "ParseManifest.decode"
    /\ decodes' = decodes + 1
    /\ \/ return(ZeroManifest, Error("parse", <<>>, 0), "decode")
       \/ /\ \E d \in Decoded : m' = stamp(d, manifestURL, pmBody)
          /\ stage' = "ParseManifest.validate"
          /\ UNCHANGED <<pmBody, idx, result, failedAt>>
    /\ UNCHANGED <<opt, pipes, headers, entry, manifestURL, checkProv>>
    /\ UNCHANGED <<validates, validated, checks, lastScan, fetchVars, ioVars>>

\* ParseManifestValidate going on to the provenance checks after the
\* validator's error.
ParseManifestValidateUngated ==
    /\ stage = "ParseManifest.validate"
    /\ validates' = validates + 1
    /\ \E r \in Validate(m) :
         /\ validated' = r
         /\ IF checkProv
              THEN /\ m' = r.m
                   /\ stage' = "ParseManifest.provenance"
                   /\ idx' = 1
                   /\ failedAt' = IF r.err = Nil THEN failedAt ELSE "validate"
                   /\ UNCHANGED <<pmBody, result>>
              ELSE return(r.m, r.err, IF r.err = Nil THEN "none" ELSE "validate")
    /\ UNCHANGED <<opt, pipes, headers, entry, manifestURL, checkProv>>
    /\ UNCHANGED <<decodes, checks, lastScan, fetchVars, ioVars>>

\* if v, err := c.sc.Validate(m); err != nil { return v, err } else { m = v }
\* and, without checkProvenance, return m, nil.
ParseManifestValidate ==
    /\ stage = "ParseManifest.validate"
    /\ validates' = validates + 1
    /\ \E r \in Validate(m) :
         /\ validated' = r
         /\ IF r.err # Nil
              THEN return(r.m, r.err, "validate")
              ELSE IF checkProv
                THEN /\ m' = r.m
                     /\ stage' = "ParseManifest.provenance"
                     /\ idx' = 1
                     /\ UNCHANGED <<pmBody, result, failedAt>>
                ELSE return(r.m, Nil, "none")
    /\ UNCHANGED <<opt, pipes, headers, entry, manifestURL, checkProv>>
    /\ UNCHANGED <<decodes, checks, lastScan, fetchVars, ioVars>>

\* The next c.CheckProvenance(ref, manifestURL) of ParseManifest, up to its
\* fetch; or return m, nil after the last one.
ParseManifestCheck ==
    /\ stage = "ParseManifest.provenance"
    /\ IF idx > Len(refs(m))
         THEN /\ return(m, Nil, "none")
              /\ UNCHANGED <<checks, fetchVars>>
         ELSE IF exempt(refs(m)[idx])
           THEN /\ checks' = Append(checks,
                                Check(refs(m)[idx], manifestURL, "exempt"))
                /\ idx' = idx + 1
                /\ UNCHANGED <<stage, pmBody, m, result, failedAt, fetchVars>>
           ELSE /\ fetchStart(refs(m)[idx].WellKnown)
                /\ stage' = "CheckProvenance.fetch"
                /\ UNCHANGED <<idx, pmBody, m, checks, result, failedAt>>
    /\ lastScan' = NoScan
    /\ UNCHANGED <<opt, pipes, headers, entry, manifestURL, checkProv>>
    /\ UNCHANGED <<decodes, validates, validated, ioVars>>

\* c.CheckProvenance(u, manifestURL), called by the caller itself with one of
\* the refs us and one of the manifest URLs murls.
CheckProvenanceCalled(us, murls) ==
    /\ stage = "idle"
    /\ entry' = "CheckProvenance"
    /\ \E u \in us, murl \in murls :
         /\ manifestURL' = murl
         /\ IF exempt(u)
              THEN /\ checks' = Append(checks, Check(u, murl, "exempt"))
                   /\ return(ZeroManifest, Nil, "none")
                   /\ UNCHANGED fetchVars
              ELSE /\ fetchStart(u.WellKnown)
                   /\ stage' = "CheckProvenance.fetch"
                   /\ UNCHANGED <<pmBody, m, idx, checks, result, failedAt>>
    /\ UNCHANGED <<opt, pipes, headers, checkProv>>
    /\ UNCHANGED <<decodes, validates, validated, lastScan, ioVars>>

CallCheckProvenance ==
    CheckProvenanceCalled({Ref(<<>>), Ref(CallerWK)}, CallerURLs)

\* CheckProvenance after fetch returned: the fetch's error, or the scan of
\* the list; then the caller of CheckProvenance goes on.
CheckProvenanceFetched ==
    /\ stage = "CheckProvenance.fetch"
    /\ fetchDone
    /\ LET u == Ref(fUrl)
           s == scan(fetchResult.body, manifestURL)
           res == IF fetchResult.err # Nil THEN "fetch" ELSE s.res
           e == IF fetchResult.err # Nil THEN fetchResult.err
                                         ELSE scanError(s.res, manifestURL)
       IN
       /\ checks' = Append(checks, Check(u, manifestURL, res))
       /\ lastScan' = IF fetchResult.err # Nil THEN NoScan
                      ELSE [res |-> s.res, compared |-> s.compared]
       /\ IF entry = "CheckProvenance"
            THEN return(ZeroManifest, e, IF e = Nil THEN "none" ELSE "provenance")
            ELSE IF e # Nil
              THEN return(m, e, "provenance")
              ELSE /\ idx' = idx + 1
                   /\ stage' = "ParseManifest.provenance"
                   /\ UNCHANGED <<pmBody, m, result, failedAt>>
    /\ fetchDrop
    /\ UNCHANGED <<opt, pipes, headers, entry, manifestURL, checkProv>>
    /\ UNCHANGED <<decodes, validates, validated, ioVars>>

Next ==
    \/ CallFetchManifest
    \/ CallParseManifest
    \/ CallCheckProvenance
    \/ FetchManifestFetched
    \/ ParseManifestDecode
    \/ ParseManifestValidate
    \/ ParseManifestCheck
    \/ CheckProvenanceFetched
    \/ doReqSend
    \/ doReqRecv
    \/ fetchLoop

\* The whole of the package, with an ample MaxBytes.
Spec == Init /\ [][Next]_vars

\* CheckProvenance called on its own, and the fetch and doReq under it, with
\* any opts.
NextProvenance ==
    \/ CallCheckProvenance
    \/ CheckProvenanceFetched
    \/ doReqSend
    \/ doReqRecv
    \/ fetchLoop

SpecProvenance == InitAnyOpt /\ [][NextProvenance]_vars

\* Several callers use the instance at the same time, each on a thread of its
\* own. The variables above hold the arguments and locals of the caller that
\* is running; those of the others are kept in pipes.
Locals ==
    [entry |-> entry, stage |-> stage, manifestURL |-> manifestURL,
     checkProv |-> checkProv, pmBody |-> pmBody, m |-> m, idx |-> idx,
     fUrl |-> fUrl, n |-> n, body |-> body, retry |-> retry, err |-> err,
     fpc |-> fpc, status |-> status, tries |-> tries, outs |-> outs,
     sent |-> sent, decodes |-> decodes, validates |-> validates,
     validated |-> validated, checks |-> checks, lastScan |-> lastScan,
     failedAt |-> failedAt, result |-> result]

Resume(l) ==
    /\ entry' = l.entry
    /\ stage' = l.stage
    /\ manifestURL' = l.manifestURL
    /\ checkProv' = l.checkProv
    /\ pmBody' = l.pmBody
    /\ m' = l.m
    /\ idx' = l.idx
    /\ fUrl' = l.fUrl
    /\ n' = l.n
    /\ body' = l.body
    /\ retry' = l.retry
    /\ err' = l.err
    /\ fpc' = l.fpc
    /\ status' = l.status
    /\ tries' = l.tries
    /\ outs' = l.outs
    /\ sent' = l.sent
    /\ decodes' = l.decodes
    /\ validates' = l.validates
    /\ validated' = l.validated
    /\ checks' = l.checks
    /\ lastScan' = l.lastScan
    /\ failedAt' = l.failedAt
    /\ result' = l.result

\* The scheduler lets another caller run: nothing of the instance changes.
Switch ==
    /\ \E p \in Pipelines \ {pipes.cur} :
         /\ pipes' = [cur |-> p,
                      saved |-> [pipes.saved EXCEPT ![pipes.cur] = Locals,
                                                    ![p] = IdleLocals]]
         /\ Resume(pipes.saved[p])
    /\ UNCHANGED <<opt, headers, ioVars>>

\* Each caller checks the provenance of a ref of its own against "a".
CallCheckProvenanceOwn ==
    CheckProvenanceCalled({Ref(<<>>), Ref(WK(pipes.cur))}, {<<97>>})

NextConcurrent ==
    \/ CallCheckProvenanceOwn
    \/ CheckProvenanceFetched
    \/ doReqSend
    \/ doReqRecv
    \/ fetchLoop
    \/ Switch

\* An instance with one attempt or several, used by several callers.
InitConcurrent ==
    Start({o \in Opts : /\ o.MaxBytes = Ample
                        /\ o.Attempts \in {1, MaxAttempts}}, MaxFaults)

SpecConcurrent == InitConcurrent /\ [][NextConcurrent]_vars

\* FetchManifest alone. The code of a call runs on the caller's thread without
\* waiting for anything but the network, the decoder and the validator: as
\* long as each of these answers, the call takes its next step.
NextFetchManifest ==
    \/ CallFetchManifest
    \/ FetchManifestFetched
    \/ ParseManifestDecode
    \/ ParseManifestValidate
    \/ ParseManifestCheck
    \/ CheckProvenanceFetched
    \/ doReqSend
    \/ doReqRecv
    \/ fetchLoop

SpecFetchManifest ==
    Init /\ [][NextFetchManifest]_vars /\ WF_vars(NextFetchManifest)

\* ======================================================================
\* The claims.
\* ======================================================================
Last(q) == q[Len(q)]
Front(q) == SubSeq(q, 1, Len(q) - 1)

\* The outcomes of an attempt after which fetch may try again.
Retriable(o) == o \in {"request", "transport", "read"}
AllRetriable(q) == \A i \in 1..Len(q) : Retriable(q[i])

\* The first k bytes of b.
Prefix(b, k) == [i \in 1..k |-> b[i]]

\* u is, byte for byte, one of the newline-separated lines of b.
HasLine(b, u) ==
    /\ \A i \in 1..Len(u) : u[i] # NL
    /\ \E i \in 1..(Len(b) + 1) :
         LET j == i + Len(u) - 1 IN
         /\ j <= Len(b)
         /\ i = 1 \/ b[i - 1] = NL
         /\ j = Len(b) \/ b[j + 1] = NL
         /\ \A k \in i..j : b[k] = u[k - i + 1]

NumLines(b) == 1 + Cardinality({i \in 1..Len(b) : b[i] = NL})

\* The i-th URL ref of a manifest in document order: the Entity's webpage,
\* then project 1's webpage and repository, project 2's, ...
DocRef(mf, i) ==
    IF i = 1 THEN mf.Entity.WebpageURL
    ELSE IF i % 2 = 0 THEN mf.Projects[i \div 2].WebpageURL
    ELSE mf.Projects[(i - 1) \div 2].RepositoryUrl

NumRefs(mf) == 1 + 2 * Len(mf.Projects)

\* The position in document order of the ref whose disclosure list is at u.
Pos(u) == u[2] - 48 + 1

InPipeline == entry \in {"FetchManifest", "ParseManifest"}
Returned == stage = "returned"
Passed(c) == c.res \in {"exempt", "found"}

\* The manifest ParseManifest holds, or has returned.
Current == IF Returned THEN result.m ELSE m

\* C1 (as claimed): when a fetch is left after nothing but retriable
\* failures, every one of the Attempts attempts was made and the fetch fails
\* (N failures and Attempts = N: it fails after exactly N attempts); a fetch
\* whose last attempt got a readable 200 succeeds with that attempt (N
\* failures, then the success, and Attempts = N + 1: N + 1 attempts); and
\* never more than Attempts attempts are made.
C1_RetryBound ==
    fetchDone =>
      /\ tries = Len(outs)
      /\ tries <= Max(opt.Attempts, 0)
      /\ AllRetriable(outs) =>
           /\ tries >= opt.Attempts
           /\ tries = opt.Attempts => fetchResult.err # Nil
      /\ (outs # <<>> /\ Last(outs) = "ok") =>
           /\ AllRetriable(Front(outs))
           /\ fetchResult.err = Nil

\* C2: an attempt that received a status other than 200 is the last attempt
\* of its fetch, whatever Attempts is, and the fetch returns that attempt's
\* error (the one logged for it) and no body.
C2_NoRetryOnStatus ==
    \A i \in 1..Len(outs) :
      outs[i] = "status" =>
        /\ i = Len(outs)
        /\ fpc = "after"
        /\ fetchDone
        /\ fetchResult.err.kind = "status"
        /\ fetchResult.err = Last(log).msg
        /\ fetchResult.body = <<>>

\* A fetch stopped by a non-200 answer to its first attempt, with attempts
\* to spare.
C2_Witness ==
    /\ outs = <<"status">>
    /\ opt.Attempts >= 2
    /\ fetchDone

\* C3: when ParseManifest with checkProvenance (and so FetchManifest) returns
\* without an error, CheckProvenance has returned nil, against the caller's
\* manifest URL, for the Entity's webpage URL and for the webpage and the
\* repository URL of every project of the returned manifest; a ref with a
\* disclosure list passed only by being found in it.
C3_AllOrNothing ==
    (Returned /\ InPipeline /\ checkProv /\ result.err = Nil) =>
      /\ Len(checks) = NumRefs(result.m)
      /\ \A i \in 1..Len(checks) :
           /\ checks[i].u = DocRef(result.m, i)
           /\ checks[i].manifestURL = manifestURL
           /\ checks[i].res =
                IF DocRef(result.m, i).WellKnown = <<>> THEN "exempt" ELSE "found"

\* A manifest of two projects returned with every one of its five refs
\* found in its disclosure list.
C3_Witness ==
    /\ Returned
    /\ entry = "FetchManifest"
    /\ result.err = Nil
    /\ Len(result.m.Projects) = 2
    /\ Len(checks) = 5
    /\ \A i \in 1..5 : checks[i].res = "found"

\* C4: in ParseManifest the checks, and the fetches of the disclosure lists,
\* come in document order, a failed check is the last one, and no list is
\* requested but those of the refs checked so far: none after the first
\* failure.
C4_DocumentOrder ==
    InPipeline =>
      /\ Len(checks) <= NumRefs(Current)
      /\ \A i \in 1..Len(checks) :
           /\ checks[i].u = DocRef(Current, i)
           /\ ~Passed(checks[i]) =>
                i = Len(checks) /\ Returned /\ result.err # Nil
      /\ stage = "CheckProvenance.fetch" =>
           /\ idx = Len(checks) + 1
           /\ fUrl = DocRef(m, idx).WellKnown
      /\ \A a \in 1..Len(log) :
           IsWellKnown(log[a].url) =>
             /\ Pos(log[a].url) <=
                  Len(checks) + (IF stage = "CheckProvenance.fetch" THEN 1 ELSE 0)
             /\ log[a].url = DocRef(Current, Pos(log[a].url)).WellKnown
             /\ \A b \in a..Len(log) :
                  IsWellKnown(log[b].url) /\ Pos(log[a].url) <= Pos(log[b].url)
      /\ \A a \in 1..Len(reqs) :
           IsWellKnown(reqs[a].url) =>
             Pos(reqs[a].url) <=
               Len(checks) + (IF stage = "CheckProvenance.fetch" THEN 1 ELSE 0)

\* The Entity's webpage fails its check, the manifest has two projects with
\* disclosure lists, and nothing of theirs was fetched.
C4_Witness ==
    /\ Returned
    /\ InPipeline
    /\ Len(checks) = 1
    /\ checks[1].res = "notfound"
    /\ Len(result.m.Projects) = 2
    /\ \A i \in 2..5 : DocRef(result.m, i).WellKnown # <<>>

\* C5 (as claimed): the scan gives up once more than 100 lines have been
\* looked at, so a manifest URL is found in the first 101 lines or not at all.
C5_BoundedScan ==
    lastScan.res = "found" => lastScan.compared <= LineCap + 1

\* C6 (as claimed): the too-many-lines error comes with no more than 101
\* lines compared with the manifest URL.
C6_ListTooLarge ==
    lastScan.res = "toomany" => lastScan.compared <= LineCap + 1

\* C7: for a fetched list of no more lines than the cap, CheckProvenance
\* finds the manifest URL if and only if it is, byte for byte, one of the
\* newline-separated lines; otherwise the result is the not-found error.
C7_ExactMatch ==
    [][(/\ stage = "CheckProvenance.fetch"
        /\ fetchDone
        /\ fetchResult.err = Nil
        /\ NumLines(fetchResult.body) <= LineCap)
       => /\ Len(checks') = Len(checks) + 1
          /\ Last(checks').res =
               IF HasLine(fetchResult.body, manifestURL) THEN "found"
                                                         ELSE "notfound"
          /\ entry = "CheckProvenance" =>
               result'.err = IF HasLine(fetchResult.body, manifestURL)
                               THEN Nil
                               ELSE Error("notfound", manifestURL, 0)]_vars

\* The manifest URL found as the last line of a list of as many lines as the
\* cap.
C7_Witness ==
    /\ Returned
    /\ entry = "CheckProvenance"
    /\ lastScan = [res |-> "found", compared |-> LineCap]
    /\ result.err = Nil

\* C8: CheckProvenance on a ref with no disclosure list returns nil at once:
\* no fetch is begun, nothing is requested and nothing is logged, whatever
\* the manifest URL.
C8_Exemption ==
    [][(Len(checks') = Len(checks) + 1 /\ Last(checks').u.WellKnown = <<>>)
       => /\ Last(checks').res = "exempt"
          /\ log' = log
          /\ reqs' = reqs
          /\ held' = held
          /\ fpc = "idle" /\ fpc' = "idle"
          /\ IF entry' = "CheckProvenance"
               THEN Returned' /\ result'.err = Nil
               ELSE stage' = "ParseManifest.provenance"]_vars

\* CheckProvenance called with an exempt ref and the manifest URL "a".
C8_Witness ==
    /\ Returned
    /\ entry = "CheckProvenance"
    /\ checks = <<Check(Ref(<<>>), <<97>>, "exempt")>>
    /\ result.err = Nil
    /\ log = <<>>

\* C9: once a stage has failed no later stage runs: after a failed fetch of
\* the manifest nothing is decoded, validated or checked; after a failed
\* decoding nothing is validated or checked; after a failed validation
\* nothing is checked; and in each case no disclosure list is fetched.
C9_StageGating ==
    /\ failedAt = "fetch" => decodes = 0 /\ validates = 0
    /\ failedAt = "decode" => decodes = 1 /\ validates = 0
    /\ failedAt \in {"fetch", "decode", "validate"} =>
         /\ InPipeline
         /\ Returned
         /\ result.err # Nil
         /\ checks = <<>>
         /\ fpc = "idle"
         /\ \A a \in 1..Len(log) : ~IsWellKnown(log[a].url)

\* FetchManifest fetched and decoded a manifest that the validator refused.
C9_Witness ==
    /\ entry = "FetchManifest"
    /\ failedAt = "validate"
    /\ decodes = 1
    /\ validates = 1
    /\ Len(log) >= 1

\* C10: the body fetch returns for a readable 200 response is the first
\* min(len, MaxBytes) bytes of what the server sent: a longer body comes back
\* as exactly MaxBytes bytes, without an error and without a further attempt.
C10_SizeCap ==
    (fpc = "after" /\ Last(outs) = "ok") =>
      /\ fetchDone
      /\ fetchResult.err = Nil
      /\ fetchResult.body = Prefix(sent, Min(Len(sent), opt.MaxBytes))
      /\ Len(sent) > opt.MaxBytes => Len(fetchResult.body) = opt.MaxBytes

\* A body of more than one byte read under MaxBytes = 1.
C10_Witness ==
    /\ fpc = "after"
    /\ Last(outs) = "ok"
    /\ opt.MaxBytes = 1
    /\ Len(sent) > 1
    /\ Len(fetchResult.body) = 1

\* The kinds of error a fetch returns.
FetchKinds == {"request", "transport", "read", "status"}

\* C11: FetchManifest fails only when the fetch of the manifest got no
\* readable 200, the body did not decode, the validator refused the manifest,
\* or a ref with a disclosure list did not pass its check; otherwise it
\* returns no error, and the manifest it returns carries the URL that was
\* fetched and, as its Body, the bytes the server sent for it.
C11_EndToEnd ==
    /\ [](  (Returned /\ entry = "FetchManifest" /\ result.err # Nil) =>
              \/ /\ failedAt = "fetch"
                 /\ result.err.kind \in FetchKinds
                 /\ result.err.url = manifestURL
              \/ /\ failedAt = "decode"
                 /\ result.err.kind = "parse"
              \/ /\ failedAt = "validate"
                 /\ validated.err # Nil
              \/ /\ failedAt = "provenance"
                 /\ checks # <<>>
                 /\ Last(checks).u.WellKnown # <<>>
                 /\ ~Passed(Last(checks))  )
    /\ [][ /\ (stage = "FetchManifest.fetch" /\ stage' = "ParseManifest.decode"
               /\ outs # <<>>)
              => (Last(outs) = "ok" /\ pmBody' = sent /\ fUrl = manifestURL)
           /\ (entry = "FetchManifest" /\ ~Returned /\ Returned'
               /\ result'.err = Nil)
              => /\ result'.m.URL = manifestURL
                 /\ result'.m.Body = pmBody
                 /\ reqs # <<>> => reqs[1].url = manifestURL ]_vars

\* FetchManifest returned the manifest "{}" of one project whose webpage is
\* exempt and whose repository and Entity were found in their lists.
C11_Witness ==
    /\ Returned
    /\ entry = "FetchManifest"
    /\ result.err = Nil
    /\ result.m.URL = manifestURL
    /\ result.m.Body = <<123, 125>>
    /\ Len(checks) = 3
    /\ checks[1].res = "found"
    /\ checks[2].res = "exempt"
    /\ checks[3].res = "found"

\* C12: the validator is called with the decoded manifest stamped with the
\* source URL and the raw body, and when it returns an error ParseManifest
\* returns that error and the manifest the validator returned, whatever the
\* manifest it was given.
C12_ValidationFailure ==
    /\ stage = "ParseManifest.validate" =>
         /\ m.URL = manifestURL
         /\ m.Body = pmBody
         /\ validates = 0
    /\ validated.err # Nil =>
         /\ Returned
         /\ failedAt = "validate"
         /\ result = validated
         /\ checks = <<>>

\* ParseManifest of "{}" at "a": the validator refused it and returned the
\* zero manifest, which is not the stamped one.
C12_Witness ==
    /\ Returned
    /\ entry = "ParseManifest"
    /\ manifestURL = <<97>>
    /\ failedAt = "validate"
    /\ validated.err.kind = "schema"
    /\ result.m = ZeroManifest

\* C13: a response the client returned is held only while doReq handles it:
\* when the attempt returns, with a body, a status error or a read error, the
\* body has been drained and closed, once, and so nothing is held between
\* attempts, when fetch returns, or after the call.
C13_Release ==
    /\ held \in {0, 1}
    /\ held = 1 <=> fpc = "do"
    /\ fpc = "do" => tries = Len(outs) + 1
    /\ fpc \in {"loop", "after", "idle"} => held = 0
    /\ Returned => held = 0

\* A fetch of two attempts, a body that could not be read and then a status
\* other than 200, both responses released.
C13_Witness ==
    /\ fpc = "after"
    /\ outs = <<"read", "status">>
    /\ Len(reqs) = 2
    /\ held = 0

\* C14: a fetch that fails returns the error of the last attempt it made,
\* the one logged last: a status other than 200, or else the error of attempt
\* number Attempts, every attempt having failed in a retriable way; and it
\* returns no body.
C14_FinalError ==
    (fetchDone /\ fetchResult.err # Nil) =>
      /\ outs # <<>>
      /\ tries = Len(outs)
      /\ fetchResult.err = Last(log).msg
      /\ fetchResult.err.kind = Last(outs)
      /\ fetchResult.err.url = fUrl
      /\ \/ Last(outs) = "status"
         \/ AllRetriable(outs) /\ tries = opt.Attempts
      /\ fetchResult.body = <<>>

\* Two attempts, the request could not be built and then the body could not
\* be read: the fetch returns the read error.
C14_Witness ==
    /\ fetchDone
    /\ opt.Attempts = 2
    /\ outs = <<"request", "read">>
    /\ fetchResult.err.kind = "read"
    /\ log[1].msg.kind = "request"

\* The requests handed to the client whose attempt has not returned yet: an
\* attempt that returned has logged its line, and it had sent a request
\* unless the request could not be built.
InFlight ==
    Len(reqs) - Cardinality({a \in 1..Len(log) : log[a].msg.kind # "request"})

\* C15: in one call at most one request is in flight; an attempt starts only
\* when every earlier attempt has returned its outcome, logged it and
\* released its response; and a fetch starts only when no fetch is under way.
C15_Sequential ==
    /\ [](InFlight \in {0, 1} /\ InFlight = held)
    /\ [][ /\ tries' = tries + 1 =>
                /\ fpc = "loop"
                /\ InFlight = 0
                /\ held = 0
                /\ Len(outs) = tries
                /\ tries >= 1 => (n = tries /\ Retriable(Last(outs)))
           /\ (fpc' = "loop" /\ fpc # "after") =>
                /\ fpc = "idle"
                /\ InFlight = 0
                /\ held = 0 ]_vars

\* FetchManifest: the manifest came with the second attempt, and the request
\* for the first disclosure list is in flight.
C15_Witness ==
    /\ entry = "FetchManifest"
    /\ stage = "CheckProvenance.fetch"
    /\ fpc = "do"
    /\ Len(reqs) = 3
    /\ Len(log) = 2
    /\ InFlight = 1

\* The URL refs of a manifest that have a disclosure list.
WKCount(mf) ==
    Cardinality({i \in 1..NumRefs(mf) : DocRef(mf, i).WellKnown # <<>>})

\* C16 (as claimed): a FetchManifest call that has returned made no more
\* than Attempts x (1 + the number of its manifest's refs with a disclosure
\* list) attempts.
C16_BoundedWork ==
    (Returned /\ entry = "FetchManifest") =>
      Len(log) <= opt.Attempts * (1 + WKCount(result.m))

\* C16 (amended): every FetchManifest call returns, and the attempts it has
\* made at any moment are no more than max(Attempts, 0) in the fetch under
\* way and max(Attempts, 0) x (1 + the number of its manifest's refs with a
\* disclosure list) in all.
C16_Termination ==
    /\ [](/\ tries <= Max(opt.Attempts, 0)
          /\ Len(log) <= Max(opt.Attempts, 0) * (1 + WKCount(Current))
          /\ Len(reqs) <= Max(opt.Attempts, 0) * (1 + WKCount(Current)))
    /\ (stage # "idle") ~> Returned

\* A call that made every attempt the bound allows: two for the manifest
\* and, the first list having come at once, two for the second list.
C16_Witness ==
    /\ Returned
    /\ entry = "FetchManifest"
    /\ opt.Attempts = 2
    /\ WKCount(result.m) = 2
    /\ Len(log) = 4

\* The log lines of the fetch under way, in the order they were printed.
Mine == SelectSeq(log, LAMBDA l : l.url = fUrl)

\* C17: every attempt of a fetch prints one log line, with the verb, the URL
\* and OK or the attempt's error; the line is there when the loop tests the
\* attempt's result, so the lines of a fetch are as many as the attempts that
\* returned, line k is that of attempt k, and it is printed before attempt
\* k + 1 begins.
C17_Logging ==
    fpc # "idle" =>
      /\ Len(Mine) = Len(outs)
      /\ Len(outs) = IF fpc = "do" THEN tries - 1 ELSE tries
      /\ \A k \in 1..Len(Mine) :
           /\ Mine[k].verb = "GET"
           /\ IF outs[k] = "ok" THEN Mine[k].msg = OK
                                ELSE Mine[k].msg = Error(outs[k], fUrl,
                                                         Mine[k].msg.code)
      /\ fpc = "after" =>
           Last(log) = [verb |-> "GET", url |-> fUrl,
                        msg |-> IF err = Nil THEN OK ELSE err]

\* A fetch whose first attempt failed in the transport and whose second got
\* the body: two lines, the error and then OK.
C17_Witness ==
    /\ fpc = "after"
    /\ outs = <<"transport", "ok">>
    /\ Len(Mine) = 2
    /\ Mine[1].msg.kind = "transport"
    /\ Mine[2].msg = OK

\* C19 (as claimed): a fetch returns without an error only when its last
\* attempt got a 200 whose body was read, whatever Attempts is; so a
\* CheckProvenance that fetched a list and found the manifest URL in it has
\* been sent that list by a server.
C19_SuccessIsReal ==
    /\ (fetchDone /\ fetchResult.err = Nil) =>
         (outs # <<>> /\ Last(outs) = "ok")
    /\ (checks # <<>> /\ Last(checks).res = "found") =>
         \E a \in 1..Len(log) :
           log[a].url = Last(checks).u.WellKnown /\ log[a].msg = OK

\* C20 (as claimed): for a manifest URL that is not empty, the list fetched
\* and the same list with one more newline at its end have the same outcome:
\* both found, both not found, or both too many lines.
C20_TrailingNewline ==
    (/\ stage = "CheckProvenance.fetch"
     /\ fetchDone
     /\ fetchResult.err = Nil
     /\ manifestURL # <<>>)
    => scan(fetchResult.body \o <<NL>>, manifestURL).res
         = scan(fetchResult.body, manifestURL).res

\* What fetch returns to a caller that runs alone, with MaxBytes max, once
\* the network has given the attempts of its fetch of u the outcomes os,
\* the last readable 200 carrying the body b.
AloneFetch(u, os, b, max, code) ==
    IF os = <<>> THEN [body |-> <<>>, err |-> Nil]
    ELSE IF Last(os) = "ok"
      THEN [body |-> Prefix(b, Min(Len(b), Max(max, 0))), err |-> Nil]
      ELSE [body |-> <<>>, err |-> Error(Last(os), u, code)]

\* The attempts a caller running alone makes when the network answers with
\* the outcomes os: it goes on after a retriable failure and only then, and
\* never beyond Attempts.
AloneAttempts(os) ==
    /\ Len(os) <= Max(opt.Attempts, 0)
    /\ AllRetriable(Front(os))
    /\ Len(os) = Max(opt.Attempts, 0) \/ (os # <<>> /\ ~Retriable(Last(os)))

====
